---------------------------- MODULE Spec2Model ----------------------------
(***************************************************************************)
(* Model of lckl's log-line formatter (src/lckl/log.h, src/lckl/log.cpp):  *)
(* LogLevel::to_string / from_string, the pattern compiler                 *)
(* LogFormatter::init, the FormatItem renderers and LogFormatter::format.  *)
(*                                                                         *)
(* A std::string is a sequence of one-character strings, so that the       *)
(* scanner's indexing, substr and comparisons are computed and not assumed.*)
(* C++ indices are 0-based; At(s, k) reads s[k].                           *)
(***************************************************************************)
EXTENDS Integers, Sequences, FiniteSets, TLC

(***************************************************************************)
(* Characters                                                              *)
(***************************************************************************)
LowerCase == <<"a","b","c","d","e","f","g","h","i","j","k","l","m",
               "n","o","p","q","r","s","t","u","v","w","x","y","z">>

UpperCase == <<"A","B","C","D","E","F","G","H","I","J","K","L","M",
               "N","O","P","Q","R","S","T","U","V","W","X","Y","Z">>

Digits == <<"0","1","2","3","4","5","6","7","8","9">>

Range(s) == { s[k] : k \in DOMAIN s }

isalpha(c) == c \in Range(LowerCase) \cup Range(UpperCase)

At(s, k) == s[k + 1]

\* std::string::substr(pos, len): len is clipped at the end of the string.
substr(s, pos, len) ==
    LET last == IF pos + len > Len(s) THEN Len(s) ELSE pos + len
    IN  SubSeq(s, pos + 1, last)

\* std::string::substr(pos): to the end of the string.
substr_from(s, pos) == SubSeq(s, pos + 1, Len(s))

(***************************************************************************)
(* LogLevel                                                                *)
(***************************************************************************)
UNKNOWN == 0
DEBUG == 1
INFO == 2
WARN == 3
ERROR == 4
FATAL == 5

\* The largest value a LogLevel::Level object is given in the model; the
\* enumerators are 0..5, the values above them are the ones `default:` sees.
MaxLevel == 7

Levels == 0..MaxLevel

S_UNKNOWN == <<"U","N","K","N","O","W","N">>
S_DEBUG == <<"D","E","B","U","G">>
S_INFO == <<"I","N","F","O">>
S_WARN == <<"W","A","R","N">>
S_ERROR == <<"E","R","R","O","R">>
S_FATAL == <<"F","A","T","A","L">>
S_debug == <<"d","e","b","u","g">>
S_info == <<"i","n","f","o">>
S_warn == <<"w","a","r","n">>
S_error == <<"e","r","r","o","r">>
S_fatal == <<"f","a","t","a","l">>

\* A to_string whose switch lost its default: a value outside the
\* enumerators falls out of the switch with no text.
to_string_nodefault(level) ==
    CASE level = UNKNOWN -> S_UNKNOWN
      [] level = DEBUG -> S_DEBUG
      [] level = INFO -> S_INFO
      [] level = WARN -> S_WARN
      [] level = ERROR -> S_ERROR
      [] level = FATAL -> S_FATAL
      [] OTHER -> <<>>

to_string(level) ==
    CASE level = UNKNOWN -> S_UNKNOWN
      [] level = DEBUG -> S_DEBUG
      [] level = INFO -> S_INFO
      [] level = WARN -> S_WARN
      [] level = ERROR -> S_ERROR
      [] level = FATAL -> S_FATAL
      [] OTHER -> S_UNKNOWN

\* A from_string that lost its upper-case block.
from_string_loweronly(str) ==
    IF str = S_debug THEN DEBUG
    ELSE IF str = S_info THEN INFO
    ELSE IF str = S_warn THEN WARN
    ELSE IF str = S_error THEN ERROR
    ELSE IF str = S_fatal THEN FATAL
    ELSE UNKNOWN

from_string(str) ==
    IF str = S_debug THEN DEBUG
    ELSE IF str = S_info THEN INFO
    ELSE IF str = S_warn THEN WARN
    ELSE IF str = S_error THEN ERROR
    ELSE IF str = S_fatal THEN FATAL
    ELSE IF str = S_DEBUG THEN DEBUG
    ELSE IF str = S_INFO THEN INFO
    ELSE IF str = S_WARN THEN WARN
    ELSE IF str = S_ERROR THEN ERROR
    ELSE IF str = S_FATAL THEN FATAL
    ELSE UNKNOWN

(***************************************************************************)
(* LogFormatter::init, first half: the scan of m_pattern into vec          *)
(***************************************************************************)
S_pattern_error == <<"<","<","p","a","t","t","e","r","n","_","e","r","r","o","r",">",">">>
S_error_format == <<"<","<","e","r","r","o","r","_","f","o","r","m","a","t"," ","%">>
S_error_close == <<">",">">>

\* The locals of one pass of the inner while loop, as declared before it.
InnerLocals(i) ==
    [n |-> i + 1, fmt_status |-> 0, fmt_begin |-> 0, str |-> <<>>, fmt |-> <<>>]

\* A test that lets every character that is no letter end the name, `}`
\* included.
EndsName_anynonletter(c, fmt_status) ==
    fmt_status = 0 /\ ~isalpha(c)

\* The test at the head of the inner loop, as written: `}` is tested twice.
EndsName(c, fmt_status) ==
    fmt_status = 0 /\ ~isalpha(c) /\ c # "}" /\ c # "}"

\* One pass of the inner while loop body at s.n: the locals after it, and
\* whether the pass left the loop through a break.
InnerStep(p, i, s) ==
    LET c == At(p, s.n) IN
    IF EndsName(c, s.fmt_status)
    THEN [brk |-> TRUE, s |-> [s EXCEPT !.str = substr(p, i + 1, s.n - i - 1)]]
    ELSE IF s.fmt_status = 0 /\ c = "{"
    THEN [brk |-> FALSE,
          s |-> [s EXCEPT !.str = substr(p, i + 1, s.n - i - 1),
                          !.fmt_status = 1,
                          !.fmt_begin = s.n,
                          !.n = s.n + 1]]
    ELSE IF s.fmt_status = 1 /\ c = "}"
    THEN [brk |-> TRUE,
          s |-> [s EXCEPT !.fmt = substr(p, s.fmt_begin + 1, s.n - s.fmt_begin - 1),
                          !.fmt_status = 0,
                          !.n = s.n + 1]]
    ELSE LET n1 == s.n + 1 IN
         [brk |-> FALSE,
          s |-> [s EXCEPT !.n = n1,
                          !.str = IF n1 = Len(p) /\ s.str = <<>>
                                  THEN substr_from(p, i + 1)
                                  ELSE s.str]]

\* while (n < m_pattern.size()) { ... }: the locals when the loop is left.
RECURSIVE InnerScan(_, _, _)
InnerScan(p, i, s) ==
    IF ~(s.n < Len(p)) THEN s
    ELSE LET r == InnerStep(p, i, s) IN
         IF r.brk THEN r.s ELSE InnerScan(p, i, r.s)

ScanLocals == [nstr |-> <<>>, vec |-> <<>>, m_error |-> FALSE]

Tuple(str, fmt, type) == [str |-> str, fmt |-> fmt, type |-> type]

\* The index the for loop goes on from after the `%%` branch: `continue`
\* runs the loop's ++i and nothing else.
EscapeNext(i) == i + 1

\* A directive pass that clears nstr without pushing the literal in it.
ScanStep_dropliteral(p, i, st) ==
    IF At(p, i) # "%"
    THEN [st |-> [st EXCEPT !.nstr = Append(@, At(p, i))], i |-> i + 1]
    ELSE IF i + 1 < Len(p) /\ At(p, i + 1) = "%"
    THEN [st |-> [st EXCEPT !.nstr = Append(@, "%")], i |-> EscapeNext(i)]
    ELSE LET s == InnerScan(p, i, InnerLocals(i))
         IN  [st |-> [st EXCEPT !.nstr = <<>>,
                                !.vec = Append(@, Tuple(s.str, s.fmt, 1))],
              i |-> (s.n - 1) + 1]

\* One pass of the for loop body at index i, with the ++i that follows it:
\* the locals after the pass and the next value of i.
ScanStep(p, i, st) ==
    IF At(p, i) # "%"
    THEN [st |-> [st EXCEPT !.nstr = Append(@, At(p, i))], i |-> i + 1]
    ELSE IF i + 1 < Len(p) /\ At(p, i + 1) = "%"
    THEN [st |-> [st EXCEPT !.nstr = Append(@, "%")], i |-> EscapeNext(i)]
    ELSE LET s == InnerScan(p, i, InnerLocals(i)) IN
         IF s.fmt_status = 0
         THEN LET flushed == IF st.nstr # <<>>
                             THEN Append(st.vec, Tuple(st.nstr, <<>>, 0))
                             ELSE st.vec
              IN  [st |-> [st EXCEPT !.nstr = <<>>,
                                     !.vec = Append(flushed, Tuple(s.str, s.fmt, 1))],
                   i |-> (s.n - 1) + 1]
         ELSE [st |-> [st EXCEPT !.m_error = TRUE,
                                 !.vec = Append(@, Tuple(S_pattern_error, s.fmt, 0))],
               i |-> i + 1]

\* for (size_t i = 0; i < m_pattern.size(); ++i) { ... }
RECURSIVE ScanLoop(_, _, _)
ScanLoop(p, i, st) ==
    IF ~(i < Len(p)) THEN st
    ELSE LET r == ScanStep(p, i, st) IN ScanLoop(p, r.i, r.st)

\* A scan that returns when the loop ends: the literal still pending in
\* nstr is lost.
Scan_noflush(p) ==
    LET st == ScanLoop(p, 0, ScanLocals)
    IN  [vec |-> st.vec, m_error |-> st.m_error]

\* A scan whose last flush has no test of nstr: an empty literal is pushed.
Scan_alwaysflush(p) ==
    LET st == ScanLoop(p, 0, ScanLocals)
    IN  [vec |-> Append(st.vec, Tuple(st.nstr, <<>>, 0)),
         m_error |-> st.m_error]

\* The scan with the flush of the last literal that follows the loop.
Scan(p) ==
    LET st == ScanLoop(p, 0, ScanLocals)
    IN  [vec |-> IF st.nstr # <<>>
                 THEN Append(st.vec, Tuple(st.nstr, <<>>, 0))
                 ELSE st.vec,
         m_error |-> st.m_error]

\* The passes of the for loop from index i on: the index and the locals
\* each pass starts with.
RECURSIVE ScanPasses(_, _, _)
ScanPasses(p, i, st) ==
    IF ~(i < Len(p)) THEN <<>>
    ELSE LET r == ScanStep(p, i, st)
         IN  <<[i |-> i, st |-> st]>> \o ScanPasses(p, r.i, r.st)

\* The locals the inner while loop tests its condition with, from s on.
RECURSIVE InnerVisits(_, _, _)
InnerVisits(p, i, s) ==
    IF ~(s.n < Len(p)) THEN {s}
    ELSE LET r == InnerStep(p, i, s)
         IN  {s} \cup (IF r.brk THEN {} ELSE InnerVisits(p, i, r.s))

\* For each tuple of vec, in order, the indices of m_pattern the scan went
\* over to make it: a pass at i goes over i up to where the next pass
\* starts; the passes that append to nstr make the literal that is pushed
\* by the next flush. `lit` is what the pending literal was read from.
RECURSIVE ConsumedLoop(_, _, _, _, _)
ConsumedLoop(p, i, st, segs, lit) ==
    IF ~(i < Len(p))
    THEN IF st.nstr # <<>> THEN Append(segs, lit) ELSE segs
    ELSE LET r == ScanStep(p, i, st)
             here == i..(r.i - 1)
             pushed == Len(r.st.vec) - Len(st.vec)
         IN  IF pushed = 0
             THEN ConsumedLoop(p, r.i, r.st, segs, lit \cup here)
             ELSE IF pushed = 2
             THEN ConsumedLoop(p, r.i, r.st, segs \o <<lit, here>>, {})
             ELSE ConsumedLoop(p, r.i, r.st, Append(segs, here), lit)

Consumed(p) == ConsumedLoop(p, 0, ScanLocals, <<>>, {})

(***************************************************************************)
(* The FormatItem classes and the table s_format_items                     *)
(***************************************************************************)
S_default_date == <<"%","Y","-","%","m","-","%","d"," ","%","H",":","%","M",":","%","S">>

StringFormatItem(str) == [kind |-> "StringFormatItem", arg |-> str]

\* DateFormatItem keeps its argument, or the default format when it is empty;
\* every other class ignores its constructor argument.
NewItem(class, fmt) ==
    IF class = "DateFormatItem"
    THEN [kind |-> class, arg |-> IF fmt = <<>> THEN S_default_date ELSE fmt]
    ELSE [kind |-> class, arg |-> <<>>]

FormatItems ==
    (<<"m">> :> "MessageFormatItem") @@ (<<"p">> :> "LevelFormatItem") @@
    (<<"r">> :> "ElapseFormatItem") @@ (<<"c">> :> "NameFormatItem") @@
    (<<"t">> :> "ThreadidFormatItem") @@ (<<"n">> :> "NewlineFormatItem") @@
    (<<"d">> :> "DateFormatItem") @@ (<<"f">> :> "FilenameFormatItem") @@
    (<<"l">> :> "LineFormatItem") @@ (<<"T">> :> "TabFormatItem") @@
    (<<"F">> :> "FiberidFormatItem") @@ (<<"N">> :> "ThreadnameFormatItem")

\* The function-local static before control first passes its declaration.
Uninitialized == <<>>

\* The static is initialised by the first init() that reaches it and is
\* the same object afterwards.
StaticTable(table) == IF table = Uninitialized THEN FormatItems ELSE table

(***************************************************************************)
(* LogFormatter::init, second half: vec into m_items                       *)
(***************************************************************************)
\* A lookup through operator[]: a name that is missing is inserted, here
\* with the class of the literal item.
Lookup_inserting(table, name) ==
    IF name \in DOMAIN table
    THEN [found |-> TRUE, class |-> table[name], table |-> table]
    ELSE [found |-> FALSE, class |-> "",
          table |-> table @@ (name :> "StringFormatItem")]

\* A lookup that falls back to the first letter of a name it does not find.
Lookup_fallback(table, name) ==
    IF name \in DOMAIN table
    THEN [found |-> TRUE, class |-> table[name], table |-> table]
    ELSE IF name # <<>> /\ <<name[1]>> \in DOMAIN table
    THEN [found |-> TRUE, class |-> table[<<name[1]>>], table |-> table]
    ELSE [found |-> FALSE, class |-> "", table |-> table]

\* s_format_items.find(name): the table is only read.
Lookup(table, name) ==
    IF name \in DOMAIN table
    THEN [found |-> TRUE, class |-> table[name], table |-> table]
    ELSE [found |-> FALSE, class |-> "", table |-> table]

\* An unknown name that ends the compilation: nothing is pushed for it.
UnknownItem_dropped(self, name) == self

\* An unknown name that gets its placeholder and leaves m_error as it was.
UnknownItem_noflag(self, name) ==
    [self EXCEPT !.m_items = Append(@, StringFormatItem(S_error_format \o name \o S_error_close))]

\* The branch of an unknown name: a placeholder is pushed, m_error is set.
UnknownItem(self, name) ==
    [self EXCEPT !.m_items = Append(@, StringFormatItem(S_error_format \o name \o S_error_close)),
                 !.m_error = TRUE]

\* for (auto& i : vec) { ... } from element k on; r holds the formatter's
\* fields and the table.
RECURSIVE ResolveLoop(_, _, _)
ResolveLoop(vec, k, r) ==
    IF k > Len(vec) THEN r
    ELSE LET t == vec[k] IN
         IF t.type = 0
         THEN ResolveLoop(vec, k + 1,
                  [r EXCEPT !.self.m_items = Append(@, StringFormatItem(t.str))])
         ELSE LET it == Lookup(r.table, t.str) IN
              IF ~it.found
              THEN ResolveLoop(vec, k + 1,
                       [self |-> UnknownItem(r.self, t.str), table |-> it.table])
              ELSE ResolveLoop(vec, k + 1,
                       [self |-> [r.self EXCEPT !.m_items = Append(@, NewItem(it.class, t.fmt))],
                        table |-> it.table])

\* LogFormatter::init() on the object `self`, with the static as it is when
\* the call starts: the object and the static when the call returns.
init(self, table) ==
    LET sc == Scan(self.m_pattern)
        s1 == [self EXCEPT !.m_error = @ \/ sc.m_error]
    IN  ResolveLoop(sc.vec, 1, [self |-> s1, table |-> StaticTable(table)])

\* LogFormatter::LogFormatter(pattern): the member initialisers, then init().
LogFormatter(pattern, table) ==
    init([m_pattern |-> pattern, m_items |-> <<>>, m_error |-> FALSE], table)

(***************************************************************************)
(* LogEvent and the text each FormatItem writes                            *)
(***************************************************************************)
\* operator<< of an unsigned integer: its decimal digits.
RECURSIVE DecimalDigits(_)
DecimalDigits(n) ==
    IF n < 10 THEN <<Digits[n + 1]>>
    ELSE Append(DecimalDigits(n \div 10), Digits[(n % 10) + 1])

\* operator<< of an int32_t: a minus sign before the digits of a negative.
Decimal(n) == IF n < 0 THEN <<"-">> \o DecimalDigits(-n) ELSE DecimalDigits(n)

\* The events the model renders: the fields LogEvent's constructor sets and
\* the content of m_ss.
Events ==
    { [m_file |-> <<"a",".","c","c">>, m_line |-> 10, m_elapse |-> 0,
       m_threadid |-> 1, m_fiberid |-> 0, m_time |-> 0,
       m_threadname |-> <<"m">>, m_ss |-> <<"h","i">>, m_level |-> INFO],
      [m_file |-> <<"b">>, m_line |-> -7, m_elapse |-> 120,
       m_threadid |-> 23, m_fiberid |-> 4, m_time |-> 86400,
       m_threadname |-> <<>>, m_ss |-> <<"%","m">>, m_level |-> ERROR] }

\* What one conversion specifier of strftime stands for: the field of the
\* broken-down local time it names, kept symbolic with the time it is of.
TimeField(spec, time) == <<"<", spec, "@">> \o DecimalDigits(time) \o <<">">>

\* The number of bytes a specifier's field takes in buf.
FieldWidth(spec) == IF spec = "Y" THEN 4 ELSE 2

\* strftime's walk over the format from 0-based index k: ordinary characters
\* are copied, `%` with the character after it is a conversion.
RECURSIVE strftime_text(_, _, _)
strftime_text(fmt, k, time) ==
    IF ~(k < Len(fmt)) THEN <<>>
    ELSE IF At(fmt, k) = "%" /\ k + 1 < Len(fmt)
    THEN TimeField(At(fmt, k + 1), time) \o strftime_text(fmt, k + 2, time)
    ELSE <<At(fmt, k)>> \o strftime_text(fmt, k + 1, time)

RECURSIVE strftime_len(_, _)
strftime_len(fmt, k) ==
    IF ~(k < Len(fmt)) THEN 0
    ELSE IF At(fmt, k) = "%" /\ k + 1 < Len(fmt)
    THEN FieldWidth(At(fmt, k + 1)) + strftime_len(fmt, k + 2)
    ELSE 1 + strftime_len(fmt, k + 1)

\* sizeof(buf) in DateFormatItem::format.
DateBufSize == 64

\* An outcome of one call: the text written, or the process brought down.
Wrote(text) == [crash |-> FALSE, text |-> text]
Crash == [crash |-> TRUE, text |-> <<>>]

\* What a read of memory nobody wrote can put on the stream: nothing, some
\* bytes, or a fault.
Indeterminate == { Wrote(<<>>), Wrote(<<"?">>), Crash }

\* Logger::get_name() has an empty body: control flows off the end of a
\* function that returns std::string, and the caller reads that string.
Logger_get_name == Indeterminate

\* DateFormatItem::format: strftime leaves buf indeterminate when the text
\* and its terminator do not fit.
DateOutcomes(m_format, time) ==
    IF strftime_len(m_format, 0) < DateBufSize
    THEN { Wrote(strftime_text(m_format, 0, time)) }
    ELSE Indeterminate

\* FormatItem::format(os, logger, level, event) of each class: the outcomes
\* of one call.
ItemOutcomes(it, level, event) ==
    CASE it.kind = "MessageFormatItem" -> { Wrote(event.m_ss) }
      [] it.kind = "LevelFormatItem" -> { Wrote(to_string(level)) }
      [] it.kind = "ElapseFormatItem" -> { Wrote(DecimalDigits(event.m_elapse)) }
      [] it.kind = "NameFormatItem" -> Logger_get_name
      [] it.kind = "ThreadidFormatItem" -> { Wrote(DecimalDigits(event.m_threadid)) }
      [] it.kind = "FiberidFormatItem" -> { Wrote(DecimalDigits(event.m_fiberid)) }
      [] it.kind = "ThreadnameFormatItem" -> { Wrote(event.m_threadname) }
      [] it.kind = "DateFormatItem" -> DateOutcomes(it.arg, event.m_time)
      [] it.kind = "FilenameFormatItem" -> { Wrote(event.m_file) }
      [] it.kind = "LineFormatItem" -> { Wrote(Decimal(event.m_line)) }
      [] it.kind = "NewlineFormatItem" -> { Wrote(<<"\n">>) }
      [] it.kind = "StringFormatItem" -> { Wrote(it.arg) }
      [] it.kind = "TabFormatItem" -> { Wrote(<<"\t">>) }

(***************************************************************************)
(* LogFormatter::format                                                    *)
(***************************************************************************)
\* for (auto& i : m_items) i->format(...) from item k on, `text` being what
\* the stream holds so far: the outcomes of the rest of the call.
RECURSIVE FormatFrom(_, _, _, _, _)
FormatFrom(m_items, k, level, event, text) ==
    IF k > Len(m_items) THEN { Wrote(text) }
    ELSE UNION { IF o.crash THEN { Crash }
                 ELSE FormatFrom(m_items, k + 1, level, event, text \o o.text)
                 : o \in ItemOutcomes(m_items[k], level, event) }

\* The string overload starts from its own empty stringstream, the stream
\* overload from what the caller's stream already holds.
StreamBase == <<"#">>

BaseOf(overload) == IF overload = "string" THEN <<>> ELSE StreamBase

Overloads == {"string", "stream"}

\* One whole call of either overload, run with nothing else going on.
format(self, overload, level, event) ==
    FormatFrom(self.m_items, 1, level, event, BaseOf(overload))

(***************************************************************************)
(* Inputs                                                                  *)
(***************************************************************************)
\* The longest pattern of the exhaustive pattern set.
MaxLen == 4

\* The characters of the exhaustive pattern set: the escape character, two
\* directives of the table, a letter that is no directive, both braces and a
\* character that is neither a letter nor a brace.
PatternChars == {"%", "d", "p", "z", "{", "}", " "}

SeqsUpTo(S, n) == UNION { [1..k -> S] : k \in 0..n }

S_default_pattern ==
    <<"%","d","{","%","Y","-","%","m","-","%","d"," ","%","H",":","%","M",":","%","S","}",
      "%","T","%","t","%","T","%","N","%","T","%","F","%","T","[","%","p","]",
      "%","T","[","%","c","]","%","T","%","f",":","%","l","%","T","%","m","%","n">>

NamedPatterns ==
    { S_default_pattern,
      S_pattern_error,
      <<"%","d","{","%","Y","}">>,
      <<"%","d","{","%","Y">>,
      <<"%","d","{","a","b","c">>,
      <<"a","%","z"," ","b">>,
      <<"%","m","%","%","%","p">>,
      <<"%","p","%","%"," ","%","m"," ","%","n">>,
      <<"%","m","%","p","%","r","%","c","%","t","%","n","%","d","%","f","%","l","%","T","%","F","%","N">> }

Patterns == SeqsUpTo(PatternChars, MaxLen) \cup NamedPatterns

\* The patterns of the formatters that share the static table.
SharedPatterns ==
    { <<>>, <<"%","z">>, <<"%","p","%","q">>, <<"a","%","d">>, <<"%","q","%","z">> }

\* The patterns of the formatter that concurrent calls render with.
ConcurrentPatterns ==
    { <<"%","p"," ","%","m">>, <<"%","l","%","c">>, <<"x","%","z","%","d">>,
      <<"%","f",":","%","t","%","n">> }

\* How many items a formatter's m_items holds at most.
MaxItems == 6

\* How many formatters are constructed one after the other.
MaxFormatters == 3

\* How many threads call format at the same time.
MaxThreads == 2

Threads == 1..MaxThreads

ToUpper(c) ==
    IF c \in Range(LowerCase)
    THEN UpperCase[CHOOSE k \in DOMAIN LowerCase : LowerCase[k] = c]
    ELSE c

ToLower(c) ==
    IF c \in Range(UpperCase)
    THEN LowerCase[CHOOSE k \in DOMAIN UpperCase : UpperCase[k] = c]
    ELSE c

\* Every spelling of s in which each letter is in either case.
CaseVariants(s) ==
    { [k \in DOMAIN s |-> IF up[k] THEN ToUpper(s[k]) ELSE ToLower(s[k])] :
        up \in [DOMAIN s -> BOOLEAN] }

LowerNames == { S_debug, S_info, S_warn, S_error, S_fatal }

\* The arguments from_string is called with: every spelling of the five
\* names in upper and lower case, and strings that are none of them.
LevelStrings ==
    UNION { CaseVariants(s) : s \in LowerNames }
    \cup { <<>>, S_UNKNOWN, <<"u","n","k","n","o","w","n">>, <<"d","e","b","u">>,
           <<"d","e","b","u","g","x">>, <<" ","w","a","r","n">>, <<"t","r","a","c","e">>,
           <<"I","N","F","O"," ">>, <<"1">> }

(***************************************************************************)
(* State                                                                   *)
(***************************************************************************)
VARIABLES
    formatters,      \* the LogFormatter objects constructed so far, in order
    s_format_items,  \* the function-local static table of init()
    calls,           \* per thread: its call of LogFormatter::format
    aborted,         \* the process was brought down by a fault
    from_call,       \* the last call of LogLevel::from_string: argument, result
    to_call          \* the last call of LogLevel::to_string: argument, result

vars == <<formatters, s_format_items, calls, aborted, from_call, to_call>>

NoCall == [st |-> "idle"]

None == [called |-> FALSE]

Init ==
    /\ formatters = <<>>
    /\ s_format_items = Uninitialized
    /\ calls = [t \in Threads |-> NoCall]
    /\ aborted = FALSE
    /\ from_call = None
    /\ to_call = None

(***************************************************************************)
(* Operations                                                              *)
(***************************************************************************)
\* new LogFormatter(pattern) for a pattern of P, while fewer than `limit`
\* formatters exist.
Construct(P, limit) ==
    /\ ~aborted
    /\ Len(formatters) < limit
    /\ \E pattern \in P :
          LET r == LogFormatter(pattern, s_format_items)
          IN  /\ formatters' = Append(formatters, r.self)
              /\ s_format_items' = r.table
    /\ UNCHANGED <<calls, aborted, from_call, to_call>>

NewCall(f, overload, level, event) ==
    [st |-> "running", f |-> f, overload |-> overload, level |-> level,
     event |-> event, pos |-> 0, ss |-> BaseOf(overload)]

\* All calls write to one stream: what one call writes lands in every sink.
Write_onestream(cs, t, text) ==
    [u \in DOMAIN cs |-> IF cs[u].st = "running"
                         THEN [cs[u] EXCEPT !.ss = @ \o text, !.pos = IF u = t THEN @ + 1 ELSE @]
                         ELSE cs[u]]

\* i->format(ss, ...) of call t: the text goes to the stream of this call,
\* the local ss or the caller's ofs, and the loop moves to the next item.
Write(cs, t, text) ==
    [cs EXCEPT ![t].ss = @ \o text, ![t].pos = @ + 1]

\* A whole call of format by thread t, with no other call in progress.
Format(t, f, overload, level, event) ==
    /\ ~aborted
    /\ calls[t].st # "running"
    /\ f \in DOMAIN formatters
    /\ \E o \in format(formatters[f], overload, level, event) :
          IF o.crash
          THEN /\ aborted' = TRUE
               /\ calls' = [calls EXCEPT ![t] = NewCall(f, overload, level, event)]
          ELSE /\ aborted' = aborted
               /\ calls' = [calls EXCEPT ![t] =
                               [NewCall(f, overload, level, event) EXCEPT
                                   !.st = "done",
                                   !.pos = Len(formatters[f].m_items),
                                   !.ss = o.text]]
    /\ UNCHANGED <<formatters, s_format_items, from_call, to_call>>

\* f.init() called on a constructed formatter: init is a public member.
Reinit(f) ==
    /\ ~aborted
    /\ f \in DOMAIN formatters
    /\ Len(formatters[f].m_items) + Len(Scan(formatters[f].m_pattern).vec) <= MaxItems
    /\ LET r == init(formatters[f], s_format_items)
       IN  /\ formatters' = [formatters EXCEPT ![f] = r.self]
           /\ s_format_items' = r.table
    /\ UNCHANGED <<calls, aborted, from_call, to_call>>

\* f.is_error() and f.get_pattern(): const members that return a field.
IsError(f) ==
    /\ ~aborted
    /\ f \in DOMAIN formatters
    /\ formatters[f].m_error \in BOOLEAN
    /\ UNCHANGED vars

GetPattern(f) ==
    /\ ~aborted
    /\ f \in DOMAIN formatters
    /\ formatters[f].m_pattern \in Seq(STRING)
    /\ UNCHANGED vars

\* Thread t enters format: the stream is set up, no item has run.
Call(t, f, overload, level, event) ==
    /\ ~aborted
    /\ calls[t].st # "running"
    /\ f \in DOMAIN formatters
    /\ calls' = [calls EXCEPT ![t] = NewCall(f, overload, level, event)]
    /\ UNCHANGED <<formatters, s_format_items, aborted, from_call, to_call>>

\* One pass of the loop over m_items in thread t.
Step(t) ==
    /\ ~aborted
    /\ calls[t].st = "running"
    /\ calls[t].pos < Len(formatters[calls[t].f].m_items)
    /\ LET c == calls[t]
           it == formatters[c.f].m_items[c.pos + 1]
       IN  \E o \in ItemOutcomes(it, c.level, c.event) :
              IF o.crash
              THEN aborted' = TRUE /\ calls' = calls
              ELSE aborted' = aborted /\ calls' = Write(calls, t, o.text)
    /\ UNCHANGED <<formatters, s_format_items, from_call, to_call>>

\* The loop of thread t is over: format returns.
Return(t) ==
    /\ ~aborted
    /\ calls[t].st = "running"
    /\ calls[t].pos = Len(formatters[calls[t].f].m_items)
    /\ calls' = [calls EXCEPT ![t].st = "done"]
    /\ UNCHANGED <<formatters, s_format_items, aborted, from_call, to_call>>

\* LogLevel::from_string(str)
CallFromString(str) ==
    /\ ~aborted
    /\ from_call' = [called |-> TRUE, str |-> str, ret |-> from_string(str)]
    /\ UNCHANGED <<formatters, s_format_items, calls, aborted, to_call>>

\* LogLevel::to_string(level)
CallToString(level) ==
    /\ ~aborted
    /\ to_call' = [called |-> TRUE, level |-> level, ret |-> to_string(level)]
    /\ UNCHANGED <<formatters, s_format_items, calls, aborted, from_call>>

(***************************************************************************)
(* Specifications                                                          *)
(***************************************************************************)
\* One formatter compiled from any pattern, then rendered by one thread.
Next ==
    \/ Construct(Patterns, 1)
    \/ \E o \in Overloads, e \in Events : Format(1, 1, o, e.m_level, e)

Spec == Init /\ [][Next]_vars

\* Formatters constructed one after the other; they share the static table.
NextShared ==
    Construct(SharedPatterns, MaxFormatters)

SpecShared == Init /\ [][NextShared]_vars

\* One formatter, and threads that run format on it item by item.
NextConcurrent ==
    \/ Construct(ConcurrentPatterns, 1)
    \/ \E t \in Threads, o \in Overloads, e \in Events : Call(t, 1, o, e.m_level, e)
    \/ \E t \in Threads : Step(t)
    \/ \E t \in Threads : Return(t)

SpecConcurrent == Init /\ [][NextConcurrent]_vars

\* One formatter and every public member of it, called in any order.
NextPublic ==
    \/ Construct(SharedPatterns, 1)
    \/ \E o \in Overloads, e \in Events : Format(1, 1, o, e.m_level, e)
    \/ Reinit(1)
    \/ IsError(1)
    \/ GetPattern(1)

SpecPublic == Init /\ [][NextPublic]_vars

\* The two functions of LogLevel, called with any argument.
NextLevel ==
    \/ \E s \in LevelStrings : CallFromString(s)
    \/ \E l \in Levels : CallToString(l)

SpecLevel == Init /\ [][NextLevel]_vars

(***************************************************************************)
(* Properties                                                              *)
(***************************************************************************)
NoPercent(s) == \A k \in DOMAIN s : s[k] # "%"

\* The literal item of a text, or nothing when the text is empty.
LiteralOf(text) == IF text = <<>> THEN <<>> ELSE <<StringFormatItem(text)>>

IsErrorFormat(it, name) ==
    it = StringFormatItem(S_error_format \o name \o S_error_close)

HasPrefix(s, pre) == Len(s) >= Len(pre) /\ SubSeq(s, 1, Len(pre)) = pre

\* An item that stands for a directive that could not be compiled.
IsErrorPlaceholder(it) ==
    /\ it.kind = "StringFormatItem"
    /\ \/ it.arg = S_pattern_error
       \/ HasPrefix(it.arg, S_error_format)

\* The calls that have run on formatter k.
CallsOn(k) == { t \in Threads : calls[t].st # "idle" /\ calls[t].f = k }

\* C1: a directive name directly followed by `{` and closed by a later `}`
\* compiles to exactly one item, that of the directive with the text between
\* the braces as its argument; the braces and the argument give no literal
\* item, no second directive and no error. Stated for the patterns that are
\* a `%`-free literal, one such directive of the table, and a `%`-free
\* literal: `%d{%Y}` is one DateFormatItem with m_format `%Y`.
C1_BraceArgumentIsOneItem ==
    \A k \in DOMAIN formatters :
        LET p == formatters[k].m_pattern IN
        \A a \in 1..Len(p), b \in 1..Len(p) :
            ( /\ a + 2 <= b
              /\ p[a] = "%" /\ <<p[a + 1]>> \in DOMAIN FormatItems
              /\ p[a + 2] = "{" /\ p[b] = "}"
              /\ \A j \in (a + 3)..(b - 1) : p[j] # "}"
              /\ NoPercent(SubSeq(p, 1, a - 1))
              /\ NoPercent(SubSeq(p, b + 1, Len(p))) )
            => /\ formatters[k].m_items =
                      LiteralOf(SubSeq(p, 1, a - 1))
                      \o <<NewItem(FormatItems[<<p[a + 1]>>], SubSeq(p, a + 3, b - 1))>>
                      \o LiteralOf(SubSeq(p, b + 1, Len(p)))
               /\ ~formatters[k].m_error

\* C2: an escape `%%` puts exactly one `%` into the rendered text whatever
\* follows it: a pattern that is a `%`-free literal L, the escape, and a rest
\* R renders as L, `%`, and what R compiled on its own renders, and has the
\* error flag of R.
C2_EscapeIsOnePercent ==
    \A k \in DOMAIN formatters :
        LET p == formatters[k].m_pattern IN
        \A a \in 1..Len(p) :
            ( /\ a < Len(p) /\ p[a] = "%" /\ p[a + 1] = "%"
              /\ NoPercent(SubSeq(p, 1, a - 1)) )
            => LET rest == LogFormatter(SubSeq(p, a + 2, Len(p)), s_format_items).self
                   head == SubSeq(p, 1, a - 1) \o <<"%">>
               IN  /\ formatters[k].m_error = rest.m_error
                   /\ \A t \in CallsOn(k) :
                         /\ calls[t].st = "done"
                         /\ \E o \in format(rest, calls[t].overload, calls[t].level, calls[t].event) :
                               /\ ~o.crash
                               /\ calls[t].ss = BaseOf(calls[t].overload) \o head
                                                \o SubSeq(o.text, Len(BaseOf(calls[t].overload)) + 1, Len(o.text))

\* The patterns C3 is about, read from 1-based index k on: literal text,
\* `%%`, a directive of the table followed by the end of the pattern or by a
\* character that is no letter and no `{`, and `%d{arg}` with a closing `}`.
RECURSIVE WellFormedFrom(_, _)
WellFormedFrom(p, k) ==
    IF k > Len(p) THEN TRUE
    ELSE IF p[k] # "%" THEN WellFormedFrom(p, k + 1)
    ELSE IF k + 1 > Len(p) THEN FALSE
    ELSE IF p[k + 1] = "%" THEN WellFormedFrom(p, k + 2)
    ELSE IF <<p[k + 1]>> \notin DOMAIN FormatItems THEN FALSE
    ELSE IF k + 2 > Len(p) THEN TRUE
    ELSE IF p[k + 1] = "d" /\ p[k + 2] = "{"
    THEN \E b \in (k + 3)..Len(p) :
            /\ p[b] = "}"
            /\ \A j \in (k + 3)..(b - 1) : p[j] # "}"
            /\ WellFormedFrom(p, b + 1)
    ELSE ~isalpha(p[k + 2]) /\ p[k + 2] # "{" /\ WellFormedFrom(p, k + 2)

\* C3: is_error() is false, and the chain holds no error placeholder, after
\* compiling a pattern made of literal text, `%%`, directives of the table
\* each followed by a non-letter or the end, and `%d{arg}` with matched
\* braces; the default pattern is one of them.
C3_NoErrorOnWellFormed ==
    \A k \in DOMAIN formatters :
        WellFormedFrom(formatters[k].m_pattern, 1)
        => /\ ~formatters[k].m_error
           /\ \A j \in DOMAIN formatters[k].m_items :
                 ~IsErrorPlaceholder(formatters[k].m_items[j])

\* C4: a pattern without `%`, the empty one included, has is_error() false
\* and every call of format on it, for any event and either overload, ends
\* with the pattern's own characters written to the stream.
C4_LiteralPatternVerbatim ==
    \A k \in DOMAIN formatters :
        NoPercent(formatters[k].m_pattern)
        => /\ ~formatters[k].m_error
           /\ \A t \in CallsOn(k) :
                 /\ calls[t].st = "done"
                 /\ calls[t].ss = BaseOf(calls[t].overload) \o formatters[k].m_pattern

\* C4 at work: a call has rendered a pattern of literal text with braces.
C4_Witness ==
    /\ Len(formatters) = 1
    /\ formatters[1].m_pattern = <<"d", "{", " ", "}">>
    /\ calls[1].st = "done"
    /\ calls[1].overload = "stream"
    /\ calls[1].ss = <<"#", "d", "{", " ", "}">>

\* The names of the table are single letters; a run of letters is a name
\* the scanner reads whole.
IsLetters(s) == s # <<>> /\ \A k \in DOMAIN s : isalpha(s[k])

\* C5: a directive whose name is not in the table does not end the
\* compilation. is_error() is true, the chain holds one placeholder with the
\* name in its text where the directive stands, and every other tuple of the
\* scan is compiled into its own item: a literal for literal text, the
\* table's class for a known name. For a pattern that is a `%`-free literal,
\* `%` with a run of letters that is no name of the table, and a `%`-free
\* rest that is empty or starts with a character that is no letter and no
\* brace, the chain is the literal, the placeholder and the rest.
C5_UnknownDirectiveKeepsGoing ==
    \A k \in DOMAIN formatters :
        LET f == formatters[k]
            p == f.m_pattern
            vec == Scan(p).vec
            unknown == { j \in DOMAIN vec :
                           vec[j].type = 1 /\ vec[j].str \notin DOMAIN FormatItems }
        IN  /\ Len(f.m_items) = Len(vec)
            /\ \A j \in DOMAIN vec :
                  IF j \in unknown
                  THEN IsErrorFormat(f.m_items[j], vec[j].str)
                  ELSE IF vec[j].type = 1
                  THEN f.m_items[j] = NewItem(FormatItems[vec[j].str], vec[j].fmt)
                  ELSE f.m_items[j] = StringFormatItem(vec[j].str)
            /\ unknown # {} => f.m_error /\ f.m_items # <<>>
            /\ \A a \in 1..Len(p), b \in 1..Len(p) :
                  ( /\ a < b /\ p[a] = "%"
                    /\ IsLetters(SubSeq(p, a + 1, b))
                    /\ SubSeq(p, a + 1, b) \notin DOMAIN FormatItems
                    /\ b < Len(p) => ~isalpha(p[b + 1]) /\ p[b + 1] \notin {"{", "}"}
                    /\ NoPercent(SubSeq(p, 1, a - 1))
                    /\ NoPercent(SubSeq(p, b + 1, Len(p))) )
                  => /\ f.m_error
                     /\ f.m_items =
                            LiteralOf(SubSeq(p, 1, a - 1))
                            \o <<StringFormatItem(S_error_format \o SubSeq(p, a + 1, b)
                                                  \o S_error_close)>>
                            \o LiteralOf(SubSeq(p, b + 1, Len(p)))

\* C5 at work: `a%z b` is compiled into the literal `a`, the placeholder of
\* `z` and the literal ` b`, and a call has rendered the chain.
C5_Witness ==
    /\ Len(formatters) = 1
    /\ formatters[1].m_pattern = <<"a", "%", "z", " ", "b">>
    /\ formatters[1].m_error
    /\ Len(formatters[1].m_items) = 3
    /\ IsErrorFormat(formatters[1].m_items[2], <<"z">>)
    /\ formatters[1].m_items[3] = StringFormatItem(<<" ", "b">>)
    /\ calls[1].st = "done"

\* C6: a directive name directly followed by `{` with no `}` after it makes
\* is_error() true and puts a single error placeholder in place of the whole
\* tail from that `%` on; the tail gives no directive item and no literal
\* item, and what was compiled before it is kept. Stated for the patterns
\* that are a `%`-free literal followed by such a tail.
C6_UnmatchedBraceIsOnePlaceholder ==
    \A k \in DOMAIN formatters :
        LET f == formatters[k]
            p == f.m_pattern
        IN  \A a \in 1..Len(p), b \in 1..Len(p) :
                ( /\ a < b /\ p[a] = "%"
                  /\ IsLetters(SubSeq(p, a + 1, b - 1))
                  /\ p[b] = "{"
                  /\ \A j \in (b + 1)..Len(p) : p[j] # "}"
                  /\ NoPercent(SubSeq(p, 1, a - 1)) )
                => /\ f.m_error
                   /\ Len(f.m_items) = Len(LiteralOf(SubSeq(p, 1, a - 1))) + 1
                   /\ SubSeq(f.m_items, 1, Len(f.m_items) - 1) = LiteralOf(SubSeq(p, 1, a - 1))
                   /\ IsErrorPlaceholder(f.m_items[Len(f.m_items)])

\* C7: with calls of format on one formatter interleaved item by item, each
\* call on its own event and its own stream, a stream holds at every item
\* boundary what the same call run alone could have written up to there, and
\* at the return what the whole call run alone could have written.
C7_CallsDoNotInterfere ==
    \A t \in Threads :
        calls[t].st # "idle"
        => LET c == calls[t]
               f == formatters[c.f]
           IN  /\ Wrote(c.ss) \in FormatFrom(SubSeq(f.m_items, 1, c.pos), 1,
                                             c.level, c.event, BaseOf(c.overload))
               /\ c.st = "done" => Wrote(c.ss) \in format(f, c.overload, c.level, c.event)

\* C7 at work: two calls are in the middle of the same chain at the same
\* time, on different events, each with text in its stream already.
C7_Witness ==
    /\ calls[1].st = "running" /\ calls[2].st = "running"
    /\ calls[1].event # calls[2].event
    /\ calls[1].pos = 2 /\ calls[2].pos = 1
    /\ Len(formatters[1].m_items) = 3
    /\ calls[1].ss # calls[2].ss
    /\ calls[2].ss # BaseOf(calls[2].overload)

LevelOfName ==
    (S_debug :> DEBUG) @@ (S_info :> INFO) @@ (S_warn :> WARN) @@
    (S_error :> ERROR) @@ (S_fatal :> FATAL)

Lowered(s) == [k \in DOMAIN s |-> ToLower(s[k])]

Uppered(s) == [k \in DOMAIN s |-> ToUpper(s[k])]

\* C8 as claimed: from_string ignores case. Every spelling of a level's name
\* in upper and lower case gives that level, every other string UNKNOWN.
C8_CaseInsensitive ==
    from_call.called
    => from_call.ret = IF Lowered(from_call.str) \in DOMAIN LevelOfName
                       THEN LevelOfName[Lowered(from_call.str)]
                       ELSE UNKNOWN

\* C8 as amended: from_string gives a level for the spelling of its name
\* that is all in lower case and for the one that is all in upper case;
\* every other string, a spelling in mixed case included, gives UNKNOWN.
C8_LowerOrUpperOnly ==
    from_call.called
    => from_call.ret =
          IF \E n \in DOMAIN LevelOfName : from_call.str \in {n, Uppered(n)}
          THEN LevelOfName[Lowered(from_call.str)]
          ELSE UNKNOWN

\* C8 at work: the mixed-case spelling `Debug` has given UNKNOWN.
C8_Witness ==
    /\ from_call.called
    /\ from_call.str = <<"D", "e", "b", "u", "g">>
    /\ from_call.ret = UNKNOWN

LevelNames == <<S_UNKNOWN, S_DEBUG, S_INFO, S_WARN, S_ERROR, S_FATAL>>

\* C9: to_string gives each of the six levels 0..5 its name and gives the
\* text UNKNOWN for a value outside them.
C9_ToStringTotal ==
    to_call.called
    => to_call.ret = IF to_call.level \in 0..5
                     THEN LevelNames[to_call.level + 1]
                     ELSE S_UNKNOWN

\* C9 at work: a value above FATAL has been given the text UNKNOWN.
C9_Witness ==
    /\ to_call.called
    /\ to_call.level > FATAL
    /\ to_call.ret = S_UNKNOWN

\* C10: what a pattern compiles to does not depend on what was compiled
\* before. Each formatter has the items and the error flag that its pattern
\* gives with the table not yet touched; so two formatters of one pattern
\* have the same items and flag, and the same possible texts for every event.
C10_CompilationIndependent ==
    /\ \A k \in DOMAIN formatters :
          formatters[k] = LogFormatter(formatters[k].m_pattern, Uninitialized).self
    /\ \A j \in DOMAIN formatters, k \in DOMAIN formatters :
          formatters[j].m_pattern = formatters[k].m_pattern
          => /\ formatters[j].m_items = formatters[k].m_items
             /\ formatters[j].m_error = formatters[k].m_error
             /\ \A o \in Overloads, e \in Events :
                   format(formatters[j], o, e.m_level, e) = format(formatters[k], o, e.m_level, e)

\* C10 at work: a pattern with an unknown directive is compiled, another
\* pattern after it, and the first pattern again.
C10_Witness ==
    /\ Len(formatters) >= 3
    /\ formatters[1].m_pattern = <<"%", "q", "%", "z">>
    /\ formatters[2].m_pattern = <<"%", "z">>
    /\ formatters[3].m_pattern = formatters[1].m_pattern
    /\ formatters[3].m_error

\* The patterns of C11 and C12: a `%`-free literal p[1..a-1], `%` at a, a
\* name p[a+1..b], and a `%`-free rest that is empty or starts with a
\* character that is no letter and no brace.
IsLiteralNameLiteral(p, a, b) ==
    /\ a < b /\ p[a] = "%"
    /\ b < Len(p) => ~isalpha(p[b + 1]) /\ p[b + 1] \notin {"{", "}"}
    /\ NoPercent(SubSeq(p, 1, a - 1))
    /\ NoPercent(SubSeq(p, b + 1, Len(p)))

IsLettersAndBraces(s) ==
    /\ \E k \in DOMAIN s : s[k] = "}"
    /\ \A k \in DOMAIN s : isalpha(s[k]) \/ s[k] = "}"

\* C12 as claimed: a directive name ends at `}`. A directive of the table
\* directly followed by `}` is compiled with its letter as the name, and the
\* `}` with what follows it is literal text.
C12_NameEndsAtCloseBrace ==
    \A k \in DOMAIN formatters :
        LET f == formatters[k]
            p == f.m_pattern
        IN  \A a \in 1..Len(p) :
                ( /\ a + 2 <= Len(p)
                  /\ p[a] = "%" /\ <<p[a + 1]>> \in DOMAIN FormatItems
                  /\ p[a + 2] = "}"
                  /\ NoPercent(SubSeq(p, 1, a - 1))
                  /\ NoPercent(SubSeq(p, a + 2, Len(p))) )
                => /\ ~f.m_error
                   /\ f.m_items =
                          LiteralOf(SubSeq(p, 1, a - 1))
                          \o <<NewItem(FormatItems[<<p[a + 1]>>], <<>>)>>
                          \o LiteralOf(SubSeq(p, a + 2, Len(p)))

\* C12 as amended: `}` does not end a directive name. The name is the run of
\* letters and `}` after the `%`, up to the end of the pattern or the first
\* character that is neither; a run with a `}` in it is no name of the
\* table, so it gives the placeholder `<<error_format %run>>` and sets
\* m_error, and only what follows the run is literal text.
C12_CloseBraceIsPartOfTheName ==
    \A k \in DOMAIN formatters :
        LET f == formatters[k]
            p == f.m_pattern
        IN  \A a \in 1..Len(p), b \in 1..Len(p) :
                ( /\ IsLiteralNameLiteral(p, a, b)
                  /\ IsLettersAndBraces(SubSeq(p, a + 1, b)) )
                => /\ f.m_error
                   /\ f.m_items =
                          LiteralOf(SubSeq(p, 1, a - 1))
                          \o <<StringFormatItem(S_error_format \o SubSeq(p, a + 1, b)
                                                \o S_error_close)>>
                          \o LiteralOf(SubSeq(p, b + 1, Len(p)))

\* C12 at work: `%p}` is compiled into the placeholder of `p}` alone.
C12_Witness ==
    /\ Len(formatters) = 1
    /\ formatters[1].m_pattern = <<"%", "p", "}">>
    /\ formatters[1].m_error
    /\ formatters[1].m_items =
          <<StringFormatItem(S_error_format \o <<"p", "}">> \o S_error_close)>>


\* The least and the greatest index of a set of indices, and the text of
\* the pattern at a run of indices.
SegMin(S) == CHOOSE x \in S : \A y \in S : x <= y
SegMax(S) == CHOOSE x \in S : \A y \in S : y <= x
IsRun(S) == S # {} /\ S = SegMin(S)..SegMax(S)
TextAt(p, S) == SubSeq(p, SegMin(S) + 1, SegMax(S) + 1)

\* The text of the pattern a tuple of vec stands for.
TupleText(t) ==
    IF t.type = 0 THEN t.str
    ELSE <<"%">> \o t.str \o
         (IF t.fmt # <<>> THEN <<"{">> \o t.fmt \o <<"}">> ELSE <<>>)

\* The item is the one a tuple of vec compiles to.
CompiledFrom(it, t) ==
    IF t.type = 0 THEN it = StringFormatItem(t.str)
    ELSE IF t.str \in DOMAIN FormatItems
    THEN it.kind = FormatItems[t.str]
    ELSE IsErrorFormat(it, t.str)

\* The items are in the order of the segments of p they were compiled from,
\* a literal segment that ends where a directive starts is the item just
\* before the directive's, and no two literal items are adjacent.
ChainInPatternOrder(p, m_items) ==
    LET vec == Scan(p).vec
        segs == Consumed(p)
    IN  /\ Len(m_items) = Len(vec)
        /\ Len(segs) = Len(vec)
        /\ \A j \in DOMAIN vec :
              /\ IsRun(segs[j])
              /\ TupleText(vec[j]) = TextAt(p, segs[j])
              /\ CompiledFrom(m_items[j], vec[j])
        /\ \A j, k \in DOMAIN vec :
              j < k => SegMax(segs[j]) < SegMin(segs[k])
        /\ \A j, k \in DOMAIN vec :
              (vec[j].type = 1 /\ vec[k].type = 0
                  /\ SegMin(segs[j]) - 1 \in segs[k]) => k = j - 1
        /\ \A j \in DOMAIN vec :
              j < Len(vec) => ~(vec[j].type = 0 /\ vec[j + 1].type = 0)

HasSuffix(s, suf) ==
    Len(s) >= Len(suf) /\ SubSeq(s, Len(s) - Len(suf) + 1, Len(s)) = suf

S_root == <<"r","o","o","t">>
S_tab == <<"\t">>

\* What the default pattern ends a line with for an event of a logger named
\* root: the level, the name, file:line and the message, a tab between
\* them and a newline last.
DefaultTail(level, event) ==
    S_tab \o <<"[">> \o to_string(level) \o <<"]">> \o
    S_tab \o <<"[">> \o S_root \o <<"]">> \o
    S_tab \o event.m_file \o <<":">> \o Decimal(event.m_line) \o
    S_tab \o event.m_ss \o <<"\n">>

\* C13: the chain keeps the order of the pattern: the items are in the
\* left-to-right order of the segments they were compiled from, the literal
\* before a directive is one item just before the directive's, no two
\* literal items are adjacent; and a call of format on the default pattern
\* returns, with `[level]`, `[root]`, `file:line` and the message in that
\* order, tab-separated, newline last.
C13_ChainKeepsPatternOrder ==
    /\ \A k \in DOMAIN formatters :
          ChainInPatternOrder(formatters[k].m_pattern, formatters[k].m_items)
    /\ \A t \in Threads :
          (calls[t].st # "idle"
              /\ formatters[calls[t].f].m_pattern = S_default_pattern)
          => /\ calls[t].st = "done"
             /\ HasSuffix(calls[t].ss, DefaultTail(calls[t].level, calls[t].event))

\* The part of C13 that is about the chain alone.
C13_OrderPart ==
    \A k \in DOMAIN formatters :
        ChainInPatternOrder(formatters[k].m_pattern, formatters[k].m_items)

\* C14: a formatter is compiled exactly once: whatever public members are
\* called after the constructor returns, m_items and m_error are what the
\* constructor left for the pattern.
C14_CompiledOnce ==
    \A k \in DOMAIN formatters :
        LET made == LogFormatter(formatters[k].m_pattern, Uninitialized).self
        IN  /\ formatters[k].m_items = made.m_items
            /\ formatters[k].m_error = made.m_error

\* The formatter's fields after the first k passes of the loop over vec in
\* the constructor's init().
AfterPasses(p, k) ==
    LET sc == Scan(p)
    IN  ResolveLoop(SubSeq(sc.vec, 1, k), 1,
            [self |-> [m_pattern |-> p, m_items |-> <<>>, m_error |-> sc.m_error],
             table |-> FormatItems]).self

\* Item j of the chain of p is a placeholder put in for a directive: it has
\* a placeholder's text, and that text is not the text of the pattern the
\* item was made from.
IsPlaceholderAt(p, m_items, j) ==
    /\ IsErrorPlaceholder(m_items[j])
    /\ m_items[j].arg # TextAt(p, Consumed(p)[j])

\* C15: after construction is_error() is true exactly when the chain holds
\* an error placeholder, which is exactly when an item reads
\* `<<error_format %name>>`; and m_error, once set by a pass of init, is
\* still set after every later pass and when the constructor returns.
C15_ErrorIffPlaceholder ==
    \A k \in DOMAIN formatters :
        LET p == formatters[k].m_pattern
            m_items == formatters[k].m_items
            n == Len(Scan(p).vec)
        IN  /\ Len(Consumed(p)) = Len(m_items)
            /\ formatters[k].m_error <=>
                  \E j \in DOMAIN m_items : IsPlaceholderAt(p, m_items, j)
            /\ formatters[k].m_error <=>
                  \E j \in DOMAIN m_items :
                      /\ m_items[j].kind = "StringFormatItem"
                      /\ HasPrefix(m_items[j].arg, S_error_format)
                      /\ HasSuffix(m_items[j].arg, S_error_close)
            /\ \A a \in 0..(n - 1) :
                  AfterPasses(p, a).m_error => AfterPasses(p, a + 1).m_error
            /\ AfterPasses(p, n).m_error = formatters[k].m_error

\* A formatter whose first item is a placeholder and whose last item is a
\* directive of the table: the flag set by the first is still set.
C15_Witness ==
    \E k \in DOMAIN formatters :
        LET p == formatters[k].m_pattern
            m_items == formatters[k].m_items
        IN  /\ Len(m_items) >= 2
            /\ IsPlaceholderAt(p, m_items, 1)
            /\ m_items[Len(m_items)].kind = "LevelFormatItem"
            /\ formatters[k].m_error

\* The passes of the for loop that init makes over p.
Passes(p) == ScanPasses(p, 0, ScanLocals)

\* The pass of the for loop at index i is one that runs the inner loop.
IsDirectivePass(p, i) ==
    At(p, i) = "%" /\ ~(i + 1 < Len(p) /\ At(p, i + 1) = "%")

\* C16: init comes to an end on every pattern: each pass of the for loop
\* over the pattern ends at an index greater than the one it started at and
\* not beyond the end; in a directive pass each pass of the inner loop that
\* does not break raises n by one, and n never passes the end; and the
\* chain has at most as many items as the pattern has characters.
C16_ScanAdvances ==
    \A k \in DOMAIN formatters :
        LET p == formatters[k].m_pattern
            passes == Passes(p)
        IN  /\ \A j \in DOMAIN passes :
                  LET i == passes[j].i
                      r == ScanStep(p, i, passes[j].st)
                  IN  /\ r.i > i
                      /\ r.i <= Len(p)
                      /\ j < Len(passes) => passes[j + 1].i = r.i
                      /\ IsDirectivePass(p, i) =>
                         \A s \in InnerVisits(p, i, InnerLocals(i)) :
                            /\ s.n > i
                            /\ s.n <= Len(p)
                            /\ s.n < Len(p) =>
                                  LET q == InnerStep(p, i, s)
                                  IN  /\ q.s.n <= Len(p)
                                      /\ q.s.n >= s.n
                                      /\ ~q.brk => q.s.n = s.n + 1
            /\ Len(passes) <= Len(p)
            /\ Len(formatters[k].m_items) <= Len(p)

\* A formatter of a pattern with a `%%`, a directive that ends at a
\* delimiter and a literal after it: three passes, of one, two and one
\* characters.
C16_Witness ==
    \E k \in DOMAIN formatters :
        /\ formatters[k].m_pattern = <<"%","%","d"," ">>
        /\ Len(Passes(formatters[k].m_pattern)) = 3
        /\ Len(formatters[k].m_items) = 3

\* What a call has appended to its sink so far.
Appended(c) == SubSeq(c.ss, Len(BaseOf(c.overload)) + 1, Len(c.ss))

\* Two calls that have returned and rendered the same event at the same
\* level with the same formatter wrote the same text, whichever overloads
\* they are.
SameTextEachTime(t, u) ==
    (/\ calls[t].st = "done" /\ calls[u].st = "done"
     /\ calls[t].f = calls[u].f
     /\ calls[t].level = calls[u].level
     /\ calls[t].event = calls[u].event)
    => Appended(calls[t]) = Appended(calls[u])

\* C17: rendering only writes to the sink: every call of format returns,
\* what the sink held before the call is still there before the text of the
\* call, the event of the call is as it was, and two calls that render the
\* same event with the same formatter write the same text, the stream
\* overload the text the string overload returns.
C17_RenderingOnlyWrites ==
    /\ ~aborted
    /\ \A t \in Threads :
          calls[t].st # "idle" =>
              /\ calls[t].event \in Events
              /\ HasPrefix(calls[t].ss, BaseOf(calls[t].overload))
    /\ \A t, u \in Threads : SameTextEachTime(t, u)

\* C17 for the formatters with no item that reads the logger.
C17_WithoutLoggerName ==
    (\A k \in DOMAIN formatters : \A j \in DOMAIN formatters[k].m_items :
        formatters[k].m_items[j].kind # "NameFormatItem")
    => C17_RenderingOnlyWrites

\* C18: the scan neither drops nor repeats pattern text: the chain has one
\* item per run of consecutive pattern positions, each item is compiled
\* from the text at its run (a literal item holds it; a directive or
\* placeholder item stands for the `%`, the name and the `{arg}` there),
\* every position of the pattern is in exactly one run, and the runs follow
\* one another from the first character to the last.
C18_ItemsPartitionThePattern ==
    \A k \in DOMAIN formatters :
        LET p == formatters[k].m_pattern
            m_items == formatters[k].m_items
            vec == Scan(p).vec
            segs == Consumed(p)
        IN  /\ Len(segs) = Len(m_items)
            /\ Len(vec) = Len(m_items)
            /\ \A j \in DOMAIN segs :
                  /\ IsRun(segs[j])
                  /\ segs[j] \subseteq 0..(Len(p) - 1)
                  /\ TupleText(vec[j]) = TextAt(p, segs[j])
                  /\ CompiledFrom(m_items[j], vec[j])
                  /\ j < Len(segs) => SegMin(segs[j + 1]) = SegMax(segs[j]) + 1
            /\ \A pos \in 0..(Len(p) - 1) :
                  Cardinality({ j \in DOMAIN segs : pos \in segs[j] }) = 1
            /\ Len(p) > 0 =>
                  /\ segs # <<>>
                  /\ SegMin(segs[1]) = 0
                  /\ SegMax(segs[Len(segs)]) = Len(p) - 1

\* A formatter whose chain is a literal, a placeholder and a second
\* literal, made from the runs 0..0, 1..2 and 3..4 of `a%z b`.
C18_Witness ==
    \E k \in DOMAIN formatters :
        /\ formatters[k].m_pattern = <<"a","%","z"," ","b">>
        /\ Consumed(formatters[k].m_pattern) = <<{0}, {1, 2}, {3, 4}>>
        /\ Len(formatters[k].m_items) = 3
=============================================================================
